---- MODULE Spec2Model ----
(***************************************************************************)
(* A model of bittensor/metagraph.py: the Metagraph's local chain cache,   *)
(* the sync pass (_sync_cache, _poll_pubkey, _cache_to_state), the weight  *)
(* publication (emit, async_emit, _wait_for_weights_inclusion), the        *)
(* subscription (async_subscribe, _wait_for_subscription) and              *)
(* TorchChainState.set_weights.                                            *)
(*                                                                         *)
(* Python lists are sequences; a dense index keeps its 0-based value, so   *)
(* the record of index i is element i + 1 of a sequence.  Python dicts are *)
(* functions whose domain grows.  The event loop is single-threaded: a     *)
(* coroutine runs without interleaving between two awaits, so one action   *)
(* is the code between two suspension points.                              *)
(***************************************************************************)
EXTENDS Integers, Sequences, FiniteSets, TLC

\* ------------------------------------------------------------------ bounds
\* Highest block height the chain reaches (the lowest is StaleLimit).
MaxBlock == 101
\* Number of distinct per-peer chain records (stake, port, weight list).
MaxProfile == 2
\* Number of changes of the chain's peer data that are followed.
MaxChanges == 2
\* Number of sync passes that are followed.
MaxPasses == 3
\* Cap on the seconds the confirmation wait is followed for.
MaxElapsed == 15
\* Longest vector handed to set_weights / async_emit.
MaxLen == 3

\* ------------------------------------------------------- program constants
\* _sync_cache: (current_block - last_emit) < 100
StaleLimit == 100
\* async_emit: _wait_for_weights_inclusion(keys, vals, timeout = 12)
EmitTimeout == 12
\* _wait_for_weights_inclusion: await asyncio.sleep(3)
PollSleep == 3
\* _convert_weights: val > 0.0001, a float weight being counted in 1/100000
Epsilon == 10
\* _convert_weights: u32_int_max = 4294967295 = u32_hi * 100000 + u32_lo
u32_hi == 42949
u32_lo == 67295
\* async_subscribe: _wait_for_subscription(timeout=12)
SubscribeTimeout == 12

\* -------------------------------------------------------------- identities
\* self._neuron.public_key, the key of the local peer.
SelfKey == "k0"
\* The other public keys the chain may list.
ChainKeys == {"k1", "k2"}
\* A key that is never listed (a dangling weight reference).
GhostKey == "kx"
\* The last-emission blocks the chain lists: the two around the staleness
\* boundary of the highest block.
EmitBlocks == (MaxBlock - StaleLimit) .. (MaxBlock - StaleLimit + 1)

\* dict[k] = v
Put(f, k, v) == [x \in (DOMAIN f) \cup {k} |-> IF x = k THEN v ELSE f[x]]

\* list[index] = v for a 0-based index inside the list
SetAt(s, index, v) == [s EXCEPT ![index + 1] = v]

\* All orders in which the elements of set S can be listed.
RECURSIVE Orders(_)
Orders(S) ==
    IF S = {} THEN {<<>>}
    ELSE UNION {{<<x>> \o t : t \in Orders(S \ {x})} : x \in S}

RECURSIVE Gcd(_, _)
Gcd(a, b) == IF b = 0 THEN a ELSE Gcd(b, a % b)

\* The float val / val_sum, kept exact as a fraction in lowest terms.
Frac(val, val_sum) ==
    IF val = 0 THEN <<0, 1>>
    ELSE <<val \div Gcd(val, val_sum), val_sum \div Gcd(val, val_sum)>>

RECURSIVE SumSeq(_)
SumSeq(s) == IF s = <<>> THEN 0 ELSE Head(s) + SumSeq(Tail(s))

Min(a, b) == IF a < b THEN a ELSE b

VARIABLES
    \* ---- the chain, as the Chain Client reports it
    chainBlock,       \* get_current_block()
    chainEmits,       \* get_last_emit_data(): listed pubkey -> last emit block
    chainProfile,     \* pubkey -> which record the chain holds for it
    chainSelfW,       \* weight_keys / weight_vals recorded for SelfKey
    chainPending,     \* the set_weights submission the chain has accepted
    \* ---- Metagraph
    last_sync,
    _n,
    _next_uid,
    _uids,
    _stake,
    _emit,
    _weight_pubkeys,
    _weight_vals,
    _neurons,
    _index_for_uid,
    _index_for_pubkey,
    _pubkey_for_index,
    state,            \* the held TorchChainState
    \* ---- control
    constructed,      \* __init__ has returned
    pc,               \* "idle", "sync", "emit", "dead"
    current_block,    \* _sync_cache: the block read in its first step
    calls,            \* _sync_cache: the poll tasks gathered, not yet started
    tasks,            \* started poll tasks: pubkey -> its locals
    lastCall,         \* the last public call and how it ended
    \* ---- async_emit / _wait_for_weights_inclusion locals
    local_keys,
    local_vals,
    are_equal,
    elapsed,          \* time.time() - start_time
    wpc,              \* "first", "loop": position in the wait
    \* ---- history (observations only; no action reads them)
    failed,           \* pubkeys whose poll failed in the running pass
    passStart,        \* the cache as the running pass found it
    cleanPasses,      \* completed failure-free passes since the chain changed
    dirty,            \* the chain changed since the running pass began
    prevUids,         \* state.uids as the last finished pass found it
    nSubmit,          \* set_weights submissions of the running / last emit
    nPolls,           \* confirmation polls of the running / last emit
    submitted,        \* "accepted" or "failed": how that submission ended
    sawEqual,         \* a confirmation poll saw the submitted mapping
    timedOut,         \* line 327 was true with the mapping still unequal
    changes,          \* changes of the chain's peer data so far
    passes,           \* sync passes started so far
    \* ---- async_subscribe / _wait_for_subscription
    chainSubscribed,  \* neurons(SelfKey) answers a descriptor, not None
    timeout,          \* async_subscribe: the caller's argument
    self_info         \* _wait_for_subscription: info, "None" or "info"

chainVars == <<chainBlock, chainEmits, chainProfile, chainSelfW, chainPending>>
cacheVars == <<_n, _next_uid, _uids, _stake, _emit, _weight_pubkeys,
               _weight_vals, _neurons, _index_for_uid, _index_for_pubkey,
               _pubkey_for_index>>
syncVars == <<current_block, calls, tasks>>
emitVars == <<local_keys, local_vals, are_equal, elapsed, wpc>>
histSync == <<failed, passStart, cleanPasses, dirty, prevUids>>
budget == <<changes, passes>>
histEmit == <<nSubmit, nPolls, submitted, sawEqual, timedOut>>
subVars == <<chainSubscribed, timeout, self_info>>
vars == <<chainVars, last_sync, cacheVars, state, constructed, pc, syncVars,
          lastCall, emitVars, histSync, histEmit, budget, subVars>>

\* ------------------------------------------------------------ Chain Client
Profiles == 1 .. MaxProfile

\* weight list the chain holds under record p
ProfileKeys(p) ==
    IF p = 1 THEN <<"k1">>
    ELSE IF p = 2 THEN <<"k1", "k2">>
    ELSE <<"k2", GhostKey>>

ProfileVals(p) ==
    IF p = 1 THEN <<30>>
    ELSE IF p = 2 THEN <<1, 3>>
    ELSE <<0, 0>>

get_stake(pubkey) == chainProfile[pubkey]

get_last_emit_data_of(pubkey) == chainEmits[pubkey]

\* the descriptor fields the chain holds: info['ip'], info['port']
neurons(pubkey) == [ip |-> chainProfile[pubkey], port |-> chainProfile[pubkey]]

weight_keys(pubkey) ==
    IF pubkey = SelfKey THEN chainSelfW.keys ELSE ProfileKeys(chainProfile[pubkey])

weight_vals(pubkey) ==
    IF pubkey = SelfKey THEN chainSelfW.vals ELSE ProfileVals(chainProfile[pubkey])

\* bittensor_pb2.Neuron(version, public_key, address, port)
Neuron(public_key, address, port) ==
    [public_key |-> public_key, address |-> address, port |-> port]

\* ---------------------------------------------------------- TorchChainState
TorchChainState ==
    [block |-> 0, n |-> 0, uids |-> <<>>, indices |-> <<>>, stake |-> <<>>,
     emit |-> <<>>, W |-> << <<>> >>, neurons |-> <<>>]

\* ------------------------------------------------------- _cache_to_state
\* Row i of weights_numpy after the loop over zip(keys, vals): entry t of the
\* weight list overwrites column j when its key is a known pubkey.
RECURSIVE FillRow(_, _, _, _, _)
FillRow(row, keys, vals, val_sum, t) ==
    IF t > Min(Len(keys), Len(vals)) THEN row
    ELSE IF keys[t] \in DOMAIN _index_for_pubkey
         THEN FillRow(SetAt(row, _index_for_pubkey[keys[t]],
                            Frac(vals[t], val_sum)),
                      keys, vals, val_sum, t + 1)
         ELSE FillRow(row, keys, vals, val_sum, t + 1)

\* The exception the loop over range(state.n) raises at row i, if any.
RowError(i) ==
    IF i >= Len(_weight_pubkeys) \/ i >= Len(_weight_vals) THEN "IndexError"
    ELSE LET keys == _weight_pubkeys[i + 1]
             vals == _weight_vals[i + 1]
         IN IF /\ SumSeq(vals) = 0
               /\ \E t \in 1 .. Min(Len(keys), Len(vals)) :
                      keys[t] \in DOMAIN _index_for_pubkey
            THEN "ZeroDivisionError"
            ELSE "none"

\* The exception _cache_to_state ends with, "none" when it returns.
CacheToStateError ==
    IF \A i \in 0 .. _n - 1 : RowError(i) = "none" THEN "none"
    ELSE LET i == CHOOSE i \in 0 .. _n - 1 :
                      /\ RowError(i) # "none"
                      /\ \A j \in 0 .. i - 1 : RowError(j) = "none"
         IN RowError(i)

\* The state _cache_to_state returns; block is self.last_sync.
\* Line 276 stores the stake tensor under the attribute `state`, so the
\* attribute `stake` keeps the empty tensor of TorchChainState.__init__.
_cache_to_state(block) ==
    [block |-> block,
     n |-> _n,
     neurons |-> _neurons,
     indices |-> [i \in 1 .. _n |-> i - 1],
     uids |-> _uids,
     emit |-> _emit,
     stake |-> <<>>,
     state |-> _stake,
     W |-> [i \in 1 .. _n |->
              FillRow([j \in 1 .. _n |-> <<0, 1>>],
                      _weight_pubkeys[i], _weight_vals[i],
                      SumSeq(_weight_vals[i]), 1)]]

\* ------------------------------------------------------------------- Init
\* The state __init__ has built when it reaches its own self.sync() call
\* (lines 139-156); the first pass of the model is that call.
Init ==
    /\ chainBlock = StaleLimit
    /\ chainEmits = <<>>
    /\ chainProfile = [k \in ChainKeys |-> 1]
    /\ chainSelfW = [keys |-> <<>>, vals |-> <<>>]
    /\ chainPending = [keys |-> <<>>, vals |-> <<>>]
    /\ last_sync = 0
    /\ _n = 1
    /\ _next_uid = 1
    /\ _uids = <<0>>
    /\ _stake = <<0>>
    /\ _emit = <<0>>
    /\ _weight_pubkeys = << <<SelfKey>> >>
    /\ _weight_vals = << <<1>> >>
    /\ _neurons = <<Neuron(SelfKey, 0, 0)>>
    /\ _index_for_uid = [u \in {0} |-> 0]
    /\ _index_for_pubkey = [k \in {SelfKey} |-> 0]
    /\ _pubkey_for_index = [i \in {0} |-> SelfKey]
    /\ state = TorchChainState
    /\ constructed = FALSE
    /\ pc = "idle"
    /\ current_block = 0
    /\ calls = <<>>
    /\ tasks = <<>>
    /\ lastCall = [op |-> "none", status |-> "none", value |-> "None", arglen |-> 0]
    /\ local_keys = <<>>
    /\ local_vals = <<>>
    /\ are_equal = FALSE
    /\ elapsed = 0
    /\ wpc = "none"
    /\ failed = {}
    /\ passStart = <<>>
    /\ cleanPasses = 0
    /\ dirty = FALSE
    /\ prevUids = <<>>
    /\ nSubmit = 0
    /\ nPolls = 0
    /\ submitted = "none"
    /\ sawEqual = FALSE
    /\ timedOut = FALSE
    /\ changes = 0
    /\ passes = 0
    /\ chainSubscribed = FALSE
    /\ timeout = 0
    /\ self_info = "None"

\* ------------------------------------------------------------ environment
\* The chain produces a block; this can happen between any two steps.
BlockAdvance ==
    /\ pc # "dead"
    /\ chainBlock < MaxBlock
    /\ chainBlock' = chainBlock + 1
    /\ cleanPasses' = 0
    /\ dirty' = TRUE
    /\ UNCHANGED <<subVars, chainEmits, chainProfile, chainSelfW, chainPending, last_sync, cacheVars,
                   state, constructed, pc, syncVars, lastCall, emitVars,
                   failed, passStart, prevUids, histEmit, budget>>

\* A peer emits (or is listed for the first time): its entry of the
\* emission list changes while no call of the Metagraph is running.
ChainEmit(pubkey, block) ==
    /\ pc = "idle"
    /\ changes < MaxChanges
    /\ changes' = changes + 1
    /\ IF pubkey \in DOMAIN chainEmits THEN chainEmits[pubkey] # block ELSE TRUE
    /\ chainEmits' = Put(chainEmits, pubkey, block)
    /\ cleanPasses' = 0
    /\ dirty' = TRUE
    /\ UNCHANGED <<subVars, chainBlock, chainProfile, chainSelfW, chainPending, last_sync, cacheVars,
                   state, constructed, pc, syncVars, lastCall, emitVars,
                   failed, passStart, prevUids, histEmit, passes>>

\* The chain's record of a peer (stake, descriptor, weight list) changes
\* while no call of the Metagraph is running.
ChainUpdate(pubkey, p) ==
    /\ pc = "idle"
    /\ changes < MaxChanges
    /\ changes' = changes + 1
    /\ chainProfile[pubkey] # p
    /\ chainProfile' = [chainProfile EXCEPT ![pubkey] = p]
    /\ cleanPasses' = 0
    /\ dirty' = TRUE
    /\ UNCHANGED <<subVars, chainBlock, chainEmits, chainSelfW, chainPending, last_sync, cacheVars,
                   state, constructed, pc, syncVars, lastCall, emitVars,
                   failed, passStart, prevUids, histEmit, passes>>

\* ------------------------------------------------------------------- sync
\* The cache, as one value.
Cache ==
    [n |-> _n, next_uid |-> _next_uid, uids |-> _uids, stake |-> _stake,
     emit |-> _emit, weight_pubkeys |-> _weight_pubkeys,
     weight_vals |-> _weight_vals, neurons |-> _neurons,
     index_for_uid |-> _index_for_uid, index_for_pubkey |-> _index_for_pubkey,
     pubkey_for_index |-> _pubkey_for_index]

\* _sync_cache whose staleness test is <= 100.
_sync_cache_inclusive ==
    /\ pc = "idle"
    /\ passes < MaxPasses
    /\ passes' = passes + 1
    /\ \E order \in Orders({k \in DOMAIN chainEmits :
                               (chainBlock - chainEmits[k]) <= StaleLimit}) :
           calls' = order
    /\ current_block' = chainBlock
    /\ pc' = "sync"
    /\ tasks' = <<>>
    /\ lastCall' = [op |-> "sync", status |-> "running", value |-> "None",
                    arglen |-> 0]
    /\ failed' = {}
    /\ passStart' = Cache
    /\ dirty' = FALSE
    /\ UNCHANGED <<subVars, chainVars, last_sync, cacheVars, state, constructed,
                   emitVars, cleanPasses, prevUids, histEmit, changes>>

\* sync() / async_sync() up to the gather of _sync_cache: the block and the
\* emission list are read, and one poll is scheduled per fresh identity, in
\* the order the chain lists them.
_sync_cache ==
    /\ pc = "idle"
    /\ passes < MaxPasses
    /\ passes' = passes + 1
    /\ \E order \in Orders({k \in DOMAIN chainEmits :
                               (chainBlock - chainEmits[k]) < StaleLimit}) :
           calls' = order
    /\ current_block' = chainBlock
    /\ pc' = "sync"
    /\ tasks' = <<>>
    /\ lastCall' = [op |-> "sync", status |-> "running", value |-> "None",
                    arglen |-> 0]
    /\ failed' = {}
    /\ passStart' = Cache
    /\ dirty' = FALSE
    /\ UNCHANGED <<subVars, chainVars, last_sync, cacheVars, state, constructed,
                   emitVars, cleanPasses, prevUids, histEmit, changes>>

\* _poll_pubkey_resolve with `self._n += 1` left out.
_poll_pubkey_resolve_noinc ==
    /\ pc = "sync"
    /\ calls # <<>>
    /\ LET pubkey == Head(calls)
       IN IF pubkey \in DOMAIN _index_for_pubkey
          THEN /\ tasks' = Put(tasks, pubkey,
                               [index |-> _index_for_pubkey[pubkey],
                                uid |-> 0, append |-> FALSE])
               /\ UNCHANGED <<_n, _next_uid, _index_for_pubkey,
                              _pubkey_for_index>>
          ELSE /\ tasks' = Put(tasks, pubkey,
                               [index |-> _n, uid |-> _next_uid,
                                append |-> TRUE])
               /\ _n' = _n
               /\ _next_uid' = _next_uid + 1
               /\ _index_for_pubkey' = Put(_index_for_pubkey, pubkey, _n)
               /\ _pubkey_for_index' = Put(_pubkey_for_index, _n, pubkey)
    /\ calls' = Tail(calls)
    /\ UNCHANGED <<subVars, chainVars, last_sync, _uids, _stake, _emit, _weight_pubkeys,
                   _weight_vals, _neurons, _index_for_uid, state, constructed,
                   pc, current_block, lastCall, emitVars, histSync, histEmit,
                   budget>>

\* _poll_pubkey_resolve with `self._next_uid += 1` left out.
_poll_pubkey_resolve_sameuid ==
    /\ pc = "sync"
    /\ calls # <<>>
    /\ LET pubkey == Head(calls)
       IN IF pubkey \in DOMAIN _index_for_pubkey
          THEN /\ tasks' = Put(tasks, pubkey,
                               [index |-> _index_for_pubkey[pubkey],
                                uid |-> 0, append |-> FALSE])
               /\ UNCHANGED <<_n, _next_uid, _index_for_pubkey,
                              _pubkey_for_index>>
          ELSE /\ tasks' = Put(tasks, pubkey,
                               [index |-> _n, uid |-> _next_uid,
                                append |-> TRUE])
               /\ _n' = _n + 1
               /\ _next_uid' = _next_uid
               /\ _index_for_pubkey' = Put(_index_for_pubkey, pubkey, _n)
               /\ _pubkey_for_index' = Put(_pubkey_for_index, _n, pubkey)
    /\ calls' = Tail(calls)
    /\ UNCHANGED <<subVars, chainVars, last_sync, _uids, _stake, _emit, _weight_pubkeys,
                   _weight_vals, _neurons, _index_for_uid, state, constructed,
                   pc, current_block, lastCall, emitVars, histSync, histEmit,
                   budget>>

\* _poll_pubkey up to its first await (lines 347-358): the next gathered
\* task starts, and resolves or allocates the index of its pubkey.
_poll_pubkey_resolve ==
    /\ pc = "sync"
    /\ calls # <<>>
    /\ LET pubkey == Head(calls)
       IN IF pubkey \in DOMAIN _index_for_pubkey
          THEN /\ tasks' = Put(tasks, pubkey,
                               [index |-> _index_for_pubkey[pubkey],
                                uid |-> 0, append |-> FALSE])
               /\ UNCHANGED <<_n, _next_uid, _index_for_pubkey,
                              _pubkey_for_index>>
          ELSE /\ tasks' = Put(tasks, pubkey,
                               [index |-> _n, uid |-> _next_uid,
                                append |-> TRUE])
               /\ _n' = _n + 1
               /\ _next_uid' = _next_uid + 1
               /\ _index_for_pubkey' = Put(_index_for_pubkey, pubkey, _n)
               /\ _pubkey_for_index' = Put(_pubkey_for_index, _n, pubkey)
    /\ calls' = Tail(calls)
    /\ UNCHANGED <<subVars, chainVars, last_sync, _uids, _stake, _emit, _weight_pubkeys,
                   _weight_vals, _neurons, _index_for_uid, state, constructed,
                   pc, current_block, lastCall, emitVars, histSync, histEmit,
                   budget>>

\* The task of pubkey leaves the set of running tasks.
TaskDone(pubkey) == tasks' = [k \in (DOMAIN tasks) \ {pubkey} |-> tasks[k]]

\* _poll_pubkey_update where refreshing a known peer gives it the next uid.
_poll_pubkey_update_restamp(pubkey, ok) ==
    /\ pc = "sync"
    /\ pubkey \in DOMAIN tasks
    /\ LET index == tasks[pubkey].index
           uid == tasks[pubkey].uid
           append == tasks[pubkey].append
           stake == get_stake(pubkey)
           emit == get_last_emit_data_of(pubkey)
           info == neurons(pubkey)
           w_keys == weight_keys(pubkey)
           w_vals == weight_vals(pubkey)
           neuron == Neuron(pubkey, info.ip, info.port)
       IN IF ~ok
          THEN /\ failed' = failed \cup {pubkey}
               /\ UNCHANGED <<_uids, _stake, _emit, _weight_pubkeys,
                              _weight_vals, _neurons, _index_for_uid>>
          ELSE IF ~append
          THEN IF index < Len(_neurons)
               THEN /\ _neurons' = SetAt(_neurons, index, neuron)
                    /\ _stake' = SetAt(_stake, index, stake)
                    /\ _emit' = SetAt(_emit, index, emit)
                    /\ _weight_pubkeys' = SetAt(_weight_pubkeys, index, w_keys)
                    /\ _weight_vals' = SetAt(_weight_vals, index, w_vals)
                    /\ _uids' = SetAt(_uids, index, _next_uid)
                    /\ UNCHANGED <<_index_for_uid, failed>>
               ELSE \* self._neurons[index] raises IndexError, caught below
                    /\ failed' = failed \cup {pubkey}
                    /\ UNCHANGED <<_uids, _stake, _emit, _weight_pubkeys,
                                   _weight_vals, _neurons, _index_for_uid>>
          ELSE /\ _neurons' = Append(_neurons, neuron)
               /\ _stake' = Append(_stake, stake)
               /\ _emit' = Append(_emit, emit)
               /\ _weight_pubkeys' = Append(_weight_pubkeys, w_keys)
               /\ _weight_vals' = Append(_weight_vals, w_vals)
               /\ _uids' = Append(_uids, uid)
               /\ _index_for_uid' = Put(_index_for_uid, uid, index)
               /\ UNCHANGED failed
    /\ TaskDone(pubkey)
    /\ UNCHANGED <<subVars, chainVars, last_sync, _n, _next_uid, _index_for_pubkey,
                   _pubkey_for_index, state, constructed, pc, current_block,
                   calls, lastCall, emitVars, passStart, cleanPasses, dirty,
                   prevUids, histEmit, budget>>

\* _poll_pubkey from its first await on (lines 359-394).  ok = FALSE: one of
\* the five queries raises (or neurons() answers None) and the except branch
\* logs it.  ok = TRUE: the answers are written at the task's index, or
\* appended when the task allocated it.
_poll_pubkey_update(pubkey, ok) ==
    /\ pc = "sync"
    /\ pubkey \in DOMAIN tasks
    /\ LET index == tasks[pubkey].index
           uid == tasks[pubkey].uid
           append == tasks[pubkey].append
           stake == get_stake(pubkey)
           emit == get_last_emit_data_of(pubkey)
           info == neurons(pubkey)
           w_keys == weight_keys(pubkey)
           w_vals == weight_vals(pubkey)
           neuron == Neuron(pubkey, info.ip, info.port)
       IN IF ~ok
          THEN /\ failed' = failed \cup {pubkey}
               /\ UNCHANGED <<_uids, _stake, _emit, _weight_pubkeys,
                              _weight_vals, _neurons, _index_for_uid>>
          ELSE IF ~append
          THEN IF index < Len(_neurons)
               THEN /\ _neurons' = SetAt(_neurons, index, neuron)
                    /\ _stake' = SetAt(_stake, index, stake)
                    /\ _emit' = SetAt(_emit, index, emit)
                    /\ _weight_pubkeys' = SetAt(_weight_pubkeys, index, w_keys)
                    /\ _weight_vals' = SetAt(_weight_vals, index, w_vals)
                    /\ UNCHANGED <<_uids, _index_for_uid, failed>>
               ELSE \* self._neurons[index] raises IndexError, caught below
                    /\ failed' = failed \cup {pubkey}
                    /\ UNCHANGED <<_uids, _stake, _emit, _weight_pubkeys,
                                   _weight_vals, _neurons, _index_for_uid>>
          ELSE /\ _neurons' = Append(_neurons, neuron)
               /\ _stake' = Append(_stake, stake)
               /\ _emit' = Append(_emit, emit)
               /\ _weight_pubkeys' = Append(_weight_pubkeys, w_keys)
               /\ _weight_vals' = Append(_weight_vals, w_vals)
               /\ _uids' = Append(_uids, uid)
               /\ _index_for_uid' = Put(_index_for_uid, uid, index)
               /\ UNCHANGED failed
    /\ TaskDone(pubkey)
    /\ UNCHANGED <<subVars, chainVars, last_sync, _n, _next_uid, _index_for_pubkey,
                   _pubkey_for_index, state, constructed, pc, current_block,
                   calls, lastCall, emitVars, passStart, cleanPasses, dirty,
                   prevUids, histEmit, budget>>

\* async_sync_finish storing the block _sync_cache read, without a second query.
async_sync_finish_observed ==
    /\ pc = "sync"
    /\ calls = <<>>
    /\ DOMAIN tasks = {}
    /\ last_sync' = current_block
    /\ IF CacheToStateError = "none"
       THEN /\ state' = _cache_to_state(current_block)
            /\ lastCall' = [lastCall EXCEPT !.status = "returned"]
            /\ constructed' = TRUE
            /\ pc' = "idle"
            /\ cleanPasses' = IF failed = {} /\ ~dirty THEN 1 ELSE 0
       ELSE /\ state' = state
            /\ lastCall' = [lastCall EXCEPT !.status = "raised",
                                            !.value = CacheToStateError]
            /\ constructed' = constructed
            /\ pc' = IF constructed THEN "idle" ELSE "dead"
            /\ cleanPasses' = 0
    /\ prevUids' = state.uids
    /\ passStart' = <<>>
    /\ failed' = {}
    /\ UNCHANGED <<subVars, chainVars, cacheVars, syncVars, emitVars, dirty,
                   histEmit, budget>>

\* async_sync after the gather (lines 170-171): the block is queried again,
\* stored as last_sync, and the state is rebuilt from the cache.  When
\* _cache_to_state raises, the held state stays and sync() raises; raised
\* out of __init__, no Metagraph exists afterwards.
async_sync_finish ==
    /\ pc = "sync"
    /\ calls = <<>>
    /\ DOMAIN tasks = {}
    /\ last_sync' = chainBlock
    /\ IF CacheToStateError = "none"
       THEN /\ state' = _cache_to_state(chainBlock)
            /\ lastCall' = [lastCall EXCEPT !.status = "returned"]
            /\ constructed' = TRUE
            /\ pc' = "idle"
            /\ cleanPasses' = IF failed = {} /\ ~dirty THEN 1 ELSE 0
       ELSE /\ state' = state
            /\ lastCall' = [lastCall EXCEPT !.status = "raised",
                                            !.value = CacheToStateError]
            /\ constructed' = constructed
            /\ pc' = IF constructed THEN "idle" ELSE "dead"
            /\ cleanPasses' = 0
    /\ prevUids' = state.uids
    /\ passStart' = <<>>
    /\ failed' = {}
    /\ UNCHANGED <<subVars, chainVars, cacheVars, syncVars, emitVars, dirty,
                   histEmit, budget>>

\* ------------------------------------------------ TorchChainState.set_weights
\* The vectors handed to set_weights: every length up to MaxLen, all ones.
StateVectors == {[i \in 1 .. len |-> <<1, 1>>] : len \in 0 .. MaxLen}

\* set_weights without the length test of line 78.
set_weights_unchecked(weights) ==
    /\ pc = "idle"
    /\ constructed
    /\ IF FALSE
       THEN /\ lastCall' = [op |-> "set_weights", status |-> "raised",
                            value |-> "ValueError", arglen |-> Len(weights)]
            /\ UNCHANGED <<state, cleanPasses>>
       ELSE /\ state' = [state EXCEPT !.W[1] = weights]
            /\ lastCall' = [op |-> "set_weights", status |-> "returned",
                            value |-> "None", arglen |-> Len(weights)]
            /\ cleanPasses' = 0
    /\ UNCHANGED <<subVars, chainVars, last_sync, cacheVars, constructed, pc, syncVars,
                   emitVars, failed, passStart, dirty, prevUids, histEmit,
                   budget>>

\* state.set_weights(weights), lines 78-80.
set_weights(weights) ==
    /\ pc = "idle"
    /\ constructed
    /\ IF Len(weights) # state.n
       THEN /\ lastCall' = [op |-> "set_weights", status |-> "raised",
                            value |-> "ValueError", arglen |-> Len(weights)]
            /\ UNCHANGED <<state, cleanPasses>>
       ELSE /\ state' = [state EXCEPT !.W[1] = weights]
            /\ lastCall' = [op |-> "set_weights", status |-> "returned",
                            value |-> "None", arglen |-> Len(weights)]
            /\ cleanPasses' = 0
    /\ UNCHANGED <<subVars, chainVars, last_sync, cacheVars, constructed, pc, syncVars,
                   emitVars, failed, passStart, dirty, prevUids, histEmit,
                   budget>>

\* -------------------------------------------------------- weight publication
\* IntOfWeight rounding to the nearest integer instead of truncating.
IntOfWeight_round(v) ==
    LET a == v \div 1000
        b == v % 1000
        hi == u32_lo \div 100
        lo == u32_lo % 100
    IN v * u32_hi + a * hi + (a * lo * 1000 + b * u32_lo + 50000) \div 100000

\* int(float(val) * int(u32_int_max)) for val = v / 100000, 0 <= v <= 50000:
\* v * u32_int_max / 100000 = v * u32_hi + v * u32_lo / 100000, truncated.
IntOfWeight(v) ==
    LET a == v \div 1000
        b == v % 1000
        hi == u32_lo \div 100
        lo == u32_lo % 100
    IN v * u32_hi + a * hi + (a * lo * 1000 + b * u32_lo) \div 100000

\* _convert_weights, lines 334-342, over positions i .. len(weights) - 1.
\* error is "KeyError" when a kept position has no pubkey.
RECURSIVE ConvertFrom(_, _, _, _)
ConvertFrom(weights, i, weight_pubkeys, weight_vals_as_ints) ==
    IF i >= Len(weights)
    THEN [keys |-> weight_pubkeys, vals |-> weight_vals_as_ints,
          error |-> "none"]
    ELSE IF weights[i + 1] > Epsilon
    THEN IF i \in DOMAIN _pubkey_for_index
         THEN ConvertFrom(weights, i + 1,
                          Append(weight_pubkeys, _pubkey_for_index[i]),
                          Append(weight_vals_as_ints,
                                 IntOfWeight(weights[i + 1])))
         ELSE [keys |-> weight_pubkeys, vals |-> weight_vals_as_ints,
               error |-> "KeyError"]
    ELSE ConvertFrom(weights, i + 1, weight_pubkeys, weight_vals_as_ints)

_convert_weights(weights) == ConvertFrom(weights, 0, <<>>, <<>>)

\* The dict built from two parallel lists: a later entry of a key replaces
\* an earlier one.
DictOf(keys, vals) ==
    [k \in {keys[t] : t \in 1 .. Len(keys)} |->
        vals[CHOOSE t \in 1 .. Len(keys) :
                 /\ keys[t] = k
                 /\ \A u \in t + 1 .. Len(keys) : keys[u] # k]]

\* The second loop of equal (lines 314-316), from the t-th local key on.
RECURSIVE CompareFrom(_, _, _, _)
CompareFrom(keys, lkey_map, ckey_map, t) ==
    IF t > Len(keys) THEN "True"
    ELSE IF keys[t] \notin DOMAIN ckey_map THEN "KeyError"
    ELSE IF lkey_map[keys[t]] # ckey_map[keys[t]] THEN "False"
    ELSE CompareFrom(keys, lkey_map, ckey_map, t + 1)

\* equal comparing the chain dict with itself: only the keys are compared.
equal_keys_only(lkeys, lvals, chain_keys, chain_vals) ==
    IF Len(lkeys) # Len(chain_keys) THEN "False"
    ELSE IF Len(chain_vals) < Len(chain_keys) \/ Len(lvals) < Len(lkeys)
    THEN "IndexError"
    ELSE CompareFrom(lkeys,
                     DictOf(chain_keys, SubSeq(chain_vals, 1, Len(chain_keys))),
                     DictOf(chain_keys, SubSeq(chain_vals, 1, Len(chain_keys))),
                     1)

\* equal(chain_keys, chain_vals) of _wait_for_weights_inclusion, lines
\* 306-317, with the local lists it closes over: "True", "False", or the
\* exception it raises.
equal(lkeys, lvals, chain_keys, chain_vals) ==
    IF Len(lkeys) # Len(chain_keys) THEN "False"
    ELSE IF Len(chain_vals) < Len(chain_keys) \/ Len(lvals) < Len(lkeys)
    THEN "IndexError"
    ELSE CompareFrom(lkeys,
                     DictOf(lkeys, SubSeq(lvals, 1, Len(lkeys))),
                     DictOf(chain_keys, SubSeq(chain_vals, 1, Len(chain_keys))),
                     1)

\* The float weights handed to async_emit, in 1/100000: 0.0001 and 0.0004.
Weights == {Epsilon, 4 * Epsilon}
EmitVectors == UNION {[1 .. len -> Weights] : len \in 1 .. MaxLen}

\* What the chain may come to hold for SelfKey once it accepted submission p:
\* p itself, p in another order, p with a value changed, with a key replaced,
\* with one key repeated, with an entry more, or nothing.
Reverse(s) == [t \in 1 .. Len(s) |-> s[Len(s) + 1 - t]]

Recordings(p) ==
    {p,
     [keys |-> Reverse(p.keys), vals |-> Reverse(p.vals)],
     [keys |-> p.keys, vals |-> [t \in 1 .. Len(p.vals) |->
                                    IF t = 1 THEN p.vals[t] + 1 ELSE p.vals[t]]],
     [keys |-> [t \in 1 .. Len(p.keys) |->
                  IF t = 1 THEN GhostKey ELSE p.keys[t]], vals |-> p.vals],
     [keys |-> [t \in 1 .. Len(p.keys) |-> p.keys[1]], vals |-> p.vals],
     [keys |-> Append(p.keys, GhostKey), vals |-> Append(p.vals, 1)],
     [keys |-> <<>>, vals |-> <<>>]}

\* The chain records weights for SelfKey while the node waits.
ChainRecord(r) ==
    /\ pc = "emit"
    /\ r # chainSelfW
    /\ chainSelfW' = r
    /\ UNCHANGED <<subVars, chainBlock, chainEmits, chainProfile, chainPending,
                   last_sync, cacheVars, state, constructed, pc, syncVars,
                   lastCall, emitVars, histSync, histEmit, budget>>

\* async_emit whose except branch does not return: the wait follows.
async_emit_swallow(weights, accepted) ==
    /\ pc = "idle"
    /\ constructed
    /\ LET conv == _convert_weights(weights)
       IN IF conv.error # "none"
          THEN /\ lastCall' = [op |-> "emit", status |-> "raised",
                               value |-> conv.error, arglen |-> Len(weights)]
               /\ nSubmit' = 0
               /\ submitted' = "none"
               /\ UNCHANGED <<chainPending, pc, local_keys, local_vals, wpc>>
          ELSE IF ~accepted
          THEN /\ lastCall' = [op |-> "emit", status |-> "running",
                               value |-> "None", arglen |-> Len(weights)]
               /\ nSubmit' = 1
               /\ submitted' = "failed"
               /\ local_keys' = conv.keys
               /\ local_vals' = conv.vals
               /\ pc' = "emit"
               /\ wpc' = "first"
               /\ UNCHANGED chainPending
          ELSE /\ lastCall' = [op |-> "emit", status |-> "running",
                               value |-> "None", arglen |-> Len(weights)]
               /\ nSubmit' = 1
               /\ submitted' = "accepted"
               /\ chainPending' = [keys |-> conv.keys, vals |-> conv.vals]
               /\ local_keys' = conv.keys
               /\ local_vals' = conv.vals
               /\ pc' = "emit"
               /\ wpc' = "first"
    /\ nPolls' = 0
    /\ sawEqual' = FALSE
    /\ timedOut' = FALSE
    /\ are_equal' = FALSE
    /\ elapsed' = 0
    /\ UNCHANGED <<subVars, chainBlock, chainEmits, chainProfile, chainSelfW, last_sync,
                   cacheVars, state, constructed, syncVars, histSync, budget>>

\* async_emit(weights) up to the first await of the wait (lines 184-190,
\* 318): the weights are converted and submitted.  accepted = FALSE: the
\* Chain Client's set_weights raises.
async_emit(weights, accepted) ==
    /\ pc = "idle"
    /\ constructed
    /\ LET conv == _convert_weights(weights)
       IN IF conv.error # "none"
          THEN /\ lastCall' = [op |-> "emit", status |-> "raised",
                               value |-> conv.error, arglen |-> Len(weights)]
               /\ nSubmit' = 0
               /\ submitted' = "none"
               /\ UNCHANGED <<chainPending, pc, local_keys, local_vals, wpc>>
          ELSE IF ~accepted
          THEN /\ lastCall' = [op |-> "emit", status |-> "returned",
                               value |-> "False", arglen |-> Len(weights)]
               /\ nSubmit' = 1
               /\ submitted' = "failed"
               /\ UNCHANGED <<chainPending, pc, local_keys, local_vals, wpc>>
          ELSE /\ lastCall' = [op |-> "emit", status |-> "running",
                               value |-> "None", arglen |-> Len(weights)]
               /\ nSubmit' = 1
               /\ submitted' = "accepted"
               /\ chainPending' = [keys |-> conv.keys, vals |-> conv.vals]
               /\ local_keys' = conv.keys
               /\ local_vals' = conv.vals
               /\ pc' = "emit"
               /\ wpc' = "first"
    /\ nPolls' = 0
    /\ sawEqual' = FALSE
    /\ timedOut' = FALSE
    /\ are_equal' = FALSE
    /\ elapsed' = 0
    /\ UNCHANGED <<subVars, chainBlock, chainEmits, chainProfile, chainSelfW, last_sync,
                   cacheVars, state, constructed, syncVars, histSync, budget>>

\* emit(weights), lines 176-177: self.async_emit() is called without the
\* weights, so the call raises TypeError before a coroutine exists: nothing
\* is converted, submitted or polled, and emit has no return statement.
emit(weights) ==
    /\ pc = "idle"
    /\ constructed
    /\ lastCall' = [op |-> "Metagraph.emit", status |-> "raised",
                    value |-> "TypeError", arglen |-> Len(weights)]
    /\ nSubmit' = 0
    /\ nPolls' = 0
    /\ submitted' = "none"
    /\ sawEqual' = FALSE
    /\ timedOut' = FALSE
    /\ UNCHANGED <<subVars, chainVars, last_sync, cacheVars, state,
                   constructed, pc, syncVars, emitVars, histSync, budget>>

\* One confirmation poll: weight_keys and weight_vals are queried and
\* compared.  The wait goes on with the answer, or ends with the exception
\* equal raises.  slept is the time the poll was preceded by.
ConfirmPoll(slept) ==
    LET chain_keys == weight_keys(SelfKey)
        chain_vals == weight_vals(SelfKey)
        res == equal(local_keys, local_vals, chain_keys, chain_vals)
    IN /\ nPolls' = nPolls + 1
       /\ elapsed' = elapsed + slept
       /\ sawEqual' = (sawEqual \/ (/\ Len(chain_keys) = Len(chain_vals)
                                    /\ DictOf(chain_keys, chain_vals)
                                         = DictOf(local_keys, local_vals)))
       /\ IF res \in {"True", "False"}
          THEN /\ are_equal' = (res = "True")
               /\ wpc' = "loop"
               /\ timedOut' = (timedOut \/ (/\ slept > 0
                                            /\ res = "False"
                                            /\ elapsed + slept > EmitTimeout))
               /\ UNCHANGED <<pc, lastCall>>
          ELSE /\ are_equal' = FALSE
               /\ wpc' = "none"
               /\ pc' = "idle"
               /\ lastCall' = [lastCall EXCEPT !.status = "raised",
                                               !.value = res]
               /\ UNCHANGED timedOut

\* _wait_for_weights_inclusion, lines 318-321: the first poll.
_wait_first_poll ==
    /\ pc = "emit"
    /\ wpc = "first"
    /\ ConfirmPoll(0)
    /\ UNCHANGED <<subVars, chainVars, last_sync, cacheVars, state, constructed,
                   syncVars, local_keys, local_vals, histSync, nSubmit,
                   submitted, budget>>

\* _wait_for_weights_inclusion, lines 322-328: one turn of the while loop.
\* The timeout test of line 327 only logs.
_wait_loop ==
    /\ pc = "emit"
    /\ wpc = "loop"
    /\ ~are_equal
    /\ elapsed < MaxElapsed
    /\ ConfirmPoll(PollSleep)
    /\ UNCHANGED <<subVars, chainVars, last_sync, cacheVars, state, constructed,
                   syncVars, local_keys, local_vals, histSync, nSubmit,
                   submitted, budget>>

\* _wait_for_weights_inclusion, lines 329-330, and the return of async_emit.
_wait_return ==
    /\ pc = "emit"
    /\ wpc = "loop"
    /\ are_equal
    /\ pc' = "idle"
    /\ wpc' = "none"
    /\ lastCall' = [lastCall EXCEPT !.status = "returned", !.value = "True"]
    /\ local_keys' = <<>>
    /\ local_vals' = <<>>
    /\ are_equal' = FALSE
    /\ elapsed' = 0
    /\ UNCHANGED <<subVars, chainVars, last_sync, cacheVars, state, constructed,
                   syncVars, histSync, histEmit, budget>>

\* -------------------------------------------------------------- subscription
\* The timeouts callers hand to subscribe: one below and one above the 12 of
\* line 221.
Timeouts == {SubscribeTimeout - 2, SubscribeTimeout + 2}

\* neurons(SelfKey), as _wait_for_subscription sees it.
neurons_self == IF chainSubscribed THEN "info" ELSE "None"

\* The chain comes to list the descriptor of SelfKey while the node waits.
ChainSubscribe ==
    /\ pc = "subscribe"
    /\ ~chainSubscribed
    /\ chainSubscribed' = TRUE
    /\ UNCHANGED <<chainVars, last_sync, cacheVars, state, constructed, pc,
                   syncVars, lastCall, emitVars, histSync, histEmit, budget,
                   timeout, self_info>>

\* subscribe(timeout) / async_subscribe(timeout), lines 220-221 and 294: the
\* subscription is submitted and the wait is entered with timeout=12, not
\* with the argument.  accepted = FALSE: the Chain Client's subscribe raises,
\* and nothing catches it.
async_subscribe(t, accepted) ==
    /\ pc = "idle"
    /\ constructed
    /\ timeout' = t
    /\ elapsed' = 0
    /\ self_info' = "None"
    /\ IF accepted
       THEN /\ pc' = "subscribe"
            /\ wpc' = "first"
            /\ lastCall' = [op |-> "subscribe", status |-> "running",
                            value |-> "None", arglen |-> 0]
       ELSE /\ lastCall' = [op |-> "subscribe", status |-> "raised",
                            value |-> "Exception", arglen |-> 0]
            /\ UNCHANGED <<pc, wpc>>
    /\ UNCHANGED <<chainVars, last_sync, cacheVars, state, constructed,
                   syncVars, local_keys, local_vals, are_equal, histSync,
                   histEmit, budget, chainSubscribed>>

\* _wait_for_subscription, line 295: the first query.  A query takes dt
\* seconds.
_wait_for_subscription_first ==
    /\ pc = "subscribe"
    /\ wpc = "first"
    /\ \E dt \in 0 .. 1 : elapsed' = elapsed + dt
    /\ self_info' = neurons_self
    /\ wpc' = "loop"
    /\ UNCHANGED <<chainVars, last_sync, cacheVars, state, constructed, pc,
                   syncVars, lastCall, local_keys, local_vals, are_equal,
                   histSync, histEmit, budget, chainSubscribed, timeout>>

\* _wait_for_subscription, lines 296-300: one turn of the while loop.  The
\* coroutine asyncio.sleep(1) is created and never awaited, so the turn
\* takes the time of its query; the test of line 299 is against 12.
_wait_for_subscription_loop ==
    /\ pc = "subscribe"
    /\ wpc = "loop"
    /\ self_info = "None"
    /\ \E dt \in 0 .. 1 : elapsed' = elapsed + dt
    /\ self_info' = neurons_self
    /\ IF elapsed' > SubscribeTimeout
       THEN /\ pc' = "idle"
            /\ wpc' = "none"
            /\ lastCall' = [lastCall EXCEPT !.status = "returned",
                                            !.value = "False"]
       ELSE UNCHANGED <<pc, wpc, lastCall>>
    /\ UNCHANGED <<chainVars, last_sync, cacheVars, state, constructed,
                   syncVars, local_keys, local_vals, are_equal, histSync,
                   histEmit, budget, chainSubscribed, timeout>>

\* _wait_for_subscription, line 301.
_wait_for_subscription_return ==
    /\ pc = "subscribe"
    /\ wpc = "loop"
    /\ self_info # "None"
    /\ pc' = "idle"
    /\ wpc' = "none"
    /\ lastCall' = [lastCall EXCEPT !.status = "returned", !.value = "True"]
    /\ UNCHANGED <<chainVars, last_sync, cacheVars, state, constructed,
                   syncVars, local_keys, local_vals, are_equal, elapsed,
                   histSync, histEmit, budget, subVars>>

Next ==
    \/ BlockAdvance
    \/ \E pubkey \in ChainKeys, block \in EmitBlocks : ChainEmit(pubkey, block)
    \/ \E pubkey \in ChainKeys, p \in Profiles : ChainUpdate(pubkey, p)
    \/ _sync_cache
    \/ _poll_pubkey_resolve
    \/ \E pubkey \in ChainKeys, ok \in BOOLEAN : _poll_pubkey_update(pubkey, ok)
    \/ async_sync_finish

Spec == Init /\ [][Next]_vars

\* The held state under set_weights: passes over a chain on which peers come
\* to be listed, and calls of state.set_weights between them.
NextState ==
    \/ \E pubkey \in ChainKeys : ChainEmit(pubkey, MaxBlock - StaleLimit + 1)
    \/ _sync_cache
    \/ _poll_pubkey_resolve
    \/ \E pubkey \in ChainKeys, ok \in BOOLEAN : _poll_pubkey_update(pubkey, ok)
    \/ async_sync_finish
    \/ \E weights \in StateVectors : set_weights(weights)

SpecState == Init /\ [][NextState]_vars

\* The publication of weights by a Metagraph constructed on a chain that
\* lists some peers: the pass of __init__, then any number of publications.
NextEmit ==
    \/ \E pubkey \in ChainKeys :
           ~constructed /\ ChainEmit(pubkey, MaxBlock - StaleLimit + 1)
    \/ ~constructed /\ _sync_cache
    \/ _poll_pubkey_resolve
    \/ \E pubkey \in ChainKeys, ok \in BOOLEAN : _poll_pubkey_update(pubkey, ok)
    \/ async_sync_finish
    \/ \E weights \in EmitVectors : emit(weights)
    \/ \E weights \in EmitVectors, accepted \in BOOLEAN :
           async_emit(weights, accepted)
    \/ \E r \in Recordings(chainPending) : ChainRecord(r)
    \/ _wait_first_poll
    \/ _wait_loop
    \/ _wait_return

SpecEmit == Init /\ [][NextEmit]_vars

\* The subscription of a constructed Metagraph: the pass of __init__, then
\* any number of subscribe calls.
NextSubscribe ==
    \/ \E pubkey \in ChainKeys :
           ~constructed /\ ChainEmit(pubkey, MaxBlock - StaleLimit + 1)
    \/ ~constructed /\ _sync_cache
    \/ _poll_pubkey_resolve
    \/ \E pubkey \in ChainKeys, ok \in BOOLEAN : _poll_pubkey_update(pubkey, ok)
    \/ async_sync_finish
    \/ \E t \in Timeouts, accepted \in BOOLEAN : async_subscribe(t, accepted)
    \/ ChainSubscribe
    \/ _wait_for_subscription_first
    \/ _wait_for_subscription_loop
    \/ _wait_for_subscription_return

SpecSubscribe == Init /\ [][NextSubscribe]_vars

\* ------------------------------------------------------------------ claims
\* The arrays of a TorchChainState all have its n entries and W is n x n.
LengthsAgree(st) ==
    /\ st.n = Len(st.uids)
    /\ st.n = Len(st.stake)
    /\ st.n = Len(st.emit)
    /\ st.n = Len(st.neurons)
    /\ st.n = Len(st.W)
    /\ \A i \in 1 .. Len(st.W) : Len(st.W[i]) = st.n

\* C1: after every sync(), whatever the chain holds, in whatever order the
\* polls complete and whichever of them fail, the held state has
\* n == len(uids) == len(stake) == len(emit) == len(neurons) == W.rows ==
\* W.cols.
C1_SnapshotLengthsAgree ==
    (lastCall.op = "sync" /\ lastCall.status # "running") => LengthsAgree(state)

\* C2: at every moment of any sequence of passes, index_of(pubkey_of(i)) = i
\* for every i in [0, n), and no two distinct pubkeys share an index.
C2_Bijection ==
    /\ \A i \in 0 .. _n - 1 :
          /\ i \in DOMAIN _pubkey_for_index
          /\ _pubkey_for_index[i] \in DOMAIN _index_for_pubkey
          /\ _index_for_pubkey[_pubkey_for_index[i]] = i
    /\ \A p, q \in DOMAIN _index_for_pubkey :
          p # q => _index_for_pubkey[p] # _index_for_pubkey[q]

\* C2's case: a second or later pass is running, three identities hold an
\* index, and a poll of the pass has failed.
C2_Witness ==
    /\ pc = "sync"
    /\ passes >= 2
    /\ _n = 3
    /\ failed # {}

\* The held state lists a uid at the dense index of pubkey.
HasUid(pubkey) ==
    /\ pubkey \in DOMAIN _index_for_pubkey
    /\ _index_for_pubkey[pubkey] < Len(state.uids)

UidOf(pubkey) == state.uids[_index_for_pubkey[pubkey] + 1]

\* C3: once the held state lists a uid at a peer's dense index, every later
\* held state lists the same uid for that peer.
C3_UidStable ==
    [][\A pubkey \in ChainKeys \cup {SelfKey} :
          HasUid(pubkey) => (HasUid(pubkey)' /\ UidOf(pubkey)' = UidOf(pubkey))]_vars

\* C3's case: the last pass found a state listing two peers and left one
\* listing more, the second peer with the uid it had.
C3_Witness ==
    /\ pc = "idle"
    /\ Len(prevUids) = 2
    /\ state.n > Len(prevUids)
    /\ state.uids[2] = prevUids[2]

\* C4: a pass that follows a failure-free pass, with the chain unchanged since
\* before that one began and no failure of its own, leaves the held state as
\* it found it.
C4_IdempotentResync ==
    [][(/\ pc = "sync"
        /\ pc' = "idle"
        /\ cleanPasses = 1
        /\ failed = {}
        /\ ~dirty) => state' = state]_vars

\* C5: a pass in which polls failed still ends with sync() returning and the
\* held state replaced by one built from the cache.
C5_PollFailureContained ==
    [][(/\ pc = "sync"
        /\ pc' # "sync"
        /\ failed # {}) => (/\ lastCall'.status = "returned"
                            /\ state'.n = _n
                            /\ state'.block = last_sync')]_vars

\* C6: during a pass, a peer whose poll failed is as the pass found it: a
\* known peer keeps its record, an unseen one is in neither map and n counts
\* only the peers that have a record.
C6_FailedPollLeavesCache ==
    pc = "sync" =>
        /\ \A pubkey \in failed :
              IF pubkey \in DOMAIN passStart.index_for_pubkey
              THEN LET i == passStart.index_for_pubkey[pubkey]
                   IN i < Len(passStart.neurons) =>
                         /\ i < Len(_neurons)
                         /\ _neurons[i + 1] = passStart.neurons[i + 1]
                         /\ _stake[i + 1] = passStart.stake[i + 1]
                         /\ _emit[i + 1] = passStart.emit[i + 1]
                         /\ _weight_pubkeys[i + 1] = passStart.weight_pubkeys[i + 1]
                         /\ _weight_vals[i + 1] = passStart.weight_vals[i + 1]
              ELSE /\ pubkey \notin DOMAIN _index_for_pubkey
                   /\ \A i \in DOMAIN _pubkey_for_index :
                         _pubkey_for_index[i] # pubkey
        /\ (DOMAIN tasks = {} /\ failed # {}
              /\ DOMAIN _index_for_pubkey \ DOMAIN passStart.index_for_pubkey
                    \subseteq failed)
             => (_n = passStart.n /\ _next_uid = passStart.next_uid)

\* C10: set_weights with a vector whose length is not n raises ValueError and
\* changes neither the held state nor anything else, the chain included.
C10_LengthMismatch ==
    [][(/\ lastCall' # lastCall
        /\ lastCall'.op = "set_weights"
        /\ lastCall'.arglen # state.n)
          => (/\ lastCall'.status = "raised"
              /\ lastCall'.value = "ValueError"
              /\ state' = state
              /\ UNCHANGED <<chainVars, last_sync, cacheVars, histEmit>>)]_vars

\* C10's case: a vector one short of n = 3 was refused.
C10_Witness ==
    /\ lastCall.op = "set_weights"
    /\ lastCall.status = "raised"
    /\ lastCall.arglen = 2
    /\ state.n = 3

\* C7: async_emit returns True only after a submission the chain accepted
\* and a confirmation poll at which the key -> value mapping recorded for
\* SelfKey was the submitted mapping.
C7_ConfirmedOnlyIfEqual ==
    (/\ lastCall.op = "emit"
     /\ lastCall.status = "returned"
     /\ lastCall.value = "True")
        => (submitted = "accepted" /\ nSubmit = 1 /\ sawEqual)

\* C7's case: True was returned after the wait had to poll again, for a
\* mapping of two keys the chain holds in the other order.
C7_Witness ==
    /\ lastCall.op = "emit"
    /\ lastCall.status = "returned"
    /\ lastCall.value = "True"
    /\ nPolls >= 2
    /\ Len(chainSelfW.keys) = 2
    /\ chainSelfW # chainPending

\* C8: once the timeout has passed with the chain still not holding the
\* submitted weights, the wait is over and async_emit has returned False.
C8_TimeoutReportsFalse ==
    timedOut => (/\ pc = "idle"
                 /\ lastCall.op = "emit"
                 /\ lastCall.status = "returned"
                 /\ lastCall.value = "False")

\* C9: when the submission fails, async_emit has returned False with one
\* submission made and no confirmation poll issued.
C9_SubmitFailureImmediate ==
    (lastCall.op = "emit" /\ submitted = "failed")
        => (/\ pc = "idle"
            /\ lastCall.status = "returned"
            /\ lastCall.value = "False"
            /\ nSubmit = 1
            /\ nPolls = 0)

\* C9's case: a submission of two weights failed, after an earlier one had
\* been accepted.
C9_Witness ==
    /\ lastCall.op = "emit"
    /\ submitted = "failed"
    /\ lastCall.arglen = 2
    /\ chainPending.keys # <<>>

\* The sum of two fractions, in lowest terms.
AddFrac(a, b) == Frac(a[1] * b[2] + b[1] * a[2], a[2] * b[2])

RECURSIVE RowSum(_)
RowSum(row) ==
    IF row = <<>> THEN <<0, 1>> ELSE AddFrac(Head(row), RowSum(Tail(row)))

\* The weight list cached at index i has a positive value for a known pubkey.
HasResolvable(i) ==
    \E t \in 1 .. Min(Len(_weight_pubkeys[i + 1]), Len(_weight_vals[i + 1])) :
        /\ _weight_pubkeys[i + 1][t] \in DOMAIN _index_for_pubkey
        /\ _weight_vals[i + 1][t] > 0

\* C11: the state a sync() built from the cache has, in every row i of W,
\* entries in [0, 1] that sum to 1 when the weight list of peer i has a
\* positive value for a known peer and are all zero otherwise; the build does
\* not fail on a division.
C11_RowNormalization ==
    (pc = "idle" /\ lastCall.op = "sync") =>
        /\ lastCall.value # "ZeroDivisionError"
        /\ lastCall.status = "returned" =>
              \A i \in 0 .. state.n - 1 :
                  /\ \A j \in 1 .. state.n :
                        /\ state.W[i + 1][j][1] >= 0
                        /\ state.W[i + 1][j][1] <= state.W[i + 1][j][2]
                  /\ IF HasResolvable(i)
                     THEN RowSum(state.W[i + 1]) = <<1, 1>>
                     ELSE \A j \in 1 .. state.n : state.W[i + 1][j][1] = 0

\* How many of the gathered calls poll pubkey.
Scheduled(s, pubkey) == Cardinality({t \in 1 .. Len(s) : s[t] = pubkey})

\* C12: a pass that reads block B schedules exactly one poll for every
\* identity the chain lists with B - last_emission_block < 100, and none for
\* any other identity.
C12_StalenessFilter ==
    [][(pc = "idle" /\ pc' = "sync") =>
          \A pubkey \in ChainKeys :
              Scheduled(calls', pubkey) =
                  IF /\ pubkey \in DOMAIN chainEmits
                     /\ current_block' - chainEmits[pubkey] < 100
                  THEN 1 ELSE 0]_vars

\* C12's case: a pass has just scheduled its polls, for the one identity that
\* last emitted 99 blocks ago and not for the one that did 100 blocks ago.
C12_Witness ==
    /\ pc = "sync"
    /\ DOMAIN tasks = {}
    /\ \E p, q \in DOMAIN chainEmits :
          /\ current_block - chainEmits[p] = 99
          /\ current_block - chainEmits[q] = 100
          /\ calls = <<p>>

\* The 0-based positions of weights whose value is above 0.0001, in order.
KeptPositions(weights) ==
    SelectSeq([t \in 1 .. Len(weights) |-> t - 1],
              LAMBDA i : weights[i + 1] > Epsilon)

\* q is v / 100000 * 4294967295 truncated: q <= v * 4294967295 / 100000 < q + 1,
\* with v * u32_hi taken off both sides.
IsTruncated(q, v) ==
    /\ (q - v * u32_hi) * 100000 <= v * u32_lo
    /\ v * u32_lo < (q - v * u32_hi + 1) * 100000

\* q is v / 100000 * 4294967295 rounded: it is within 1/2 of it.
IsRounded(q, v) ==
    /\ 2 * (v * u32_lo - (q - v * u32_hi) * 100000) <= 100000
    /\ 2 * (v * u32_lo - (q - v * u32_hi) * 100000) >= -100000

\* (keys, vals) has one entry per kept position of weights, in index order:
\* the pubkey of the position and an integer that IsValue accepts for its weight.
Encodes(keys, vals, weights, IsValue(_, _)) ==
    LET kept == KeptPositions(weights)
    IN /\ Len(keys) = Len(kept)
       /\ Len(vals) = Len(kept)
       /\ \A t \in 1 .. Len(kept) :
             /\ keys[t] = _pubkey_for_index[kept[t]]
             /\ IsValue(vals[t], weights[kept[t] + 1])

\* C13 as stated: what async_emit submits for weights is one entry per
\* position i with weights[i] > 0.0001, in index order, each
\* (pubkey_of(i), round(weights[i] * 4294967295)).
C13_EncodeRounds ==
    [][(pc = "idle" /\ pc' = "emit") =>
          \A weights \in EmitVectors :
              async_emit(weights, TRUE)
                 => Encodes(chainPending'.keys, chainPending'.vals, weights,
                            IsRounded)]_vars

\* C13 as amended: the same, each emitted entry being
\* (pubkey_of(i), int(weights[i] * 4294967295)), the product truncated.
C13_EncodeTruncates ==
    [][(pc = "idle" /\ pc' = "emit") =>
          \A weights \in EmitVectors :
              async_emit(weights, TRUE)
                 => Encodes(chainPending'.keys, chainPending'.vals, weights,
                            IsTruncated)]_vars

\* C13's case: a vector of three weights was submitted, the first and the
\* last at 0.0001 and left out, the second at 0.0004 and kept.
C13_Witness ==
    /\ pc = "emit"
    /\ wpc = "first"
    /\ lastCall.arglen = 3
    /\ 1 \in DOMAIN _pubkey_for_index
    /\ local_keys = <<_pubkey_for_index[1]>>
    /\ Len(local_vals) = 1
    /\ IsTruncated(local_vals[1], 4 * Epsilon)

\* C14: subscribe(timeout) returns False only once the caller's timeout has
\* elapsed, is not still polling for a missing descriptor after it, and
\* returns True only with the descriptor observed.
C14_SubscribeHonoursTimeout ==
    lastCall.op = "subscribe" =>
        /\ (lastCall.status = "returned" /\ lastCall.value = "False")
              => elapsed > timeout
        /\ (lastCall.status = "running" /\ wpc = "loop" /\ self_info = "None")
              => elapsed <= timeout
        /\ (lastCall.status = "returned" /\ lastCall.value = "True")
              => self_info # "None"

\* C15: a call of emit(weights) ends by returning the boolean outcome of the
\* publication, after one set_weights submission to the chain.
C15_EmitPublishes ==
    (lastCall.op = "Metagraph.emit" /\ lastCall.status # "running") =>
        /\ lastCall.status = "returned"
        /\ lastCall.value \in {"True", "False"}
        /\ nSubmit = 1

\* C16: after a pass, with every allocated index holding a record (no first
\* sighting ever failed), the descriptor and the uid stored at index i are
\* those of pubkey_of(i), whatever the order in which the polls completed.
C16_OwnIndexOnly ==
    (pc = "idle" /\ lastCall.op = "sync" /\ Len(_neurons) = _n) =>
        \A i \in 0 .. _n - 1 :
            /\ _neurons[i + 1].public_key = _pubkey_for_index[i]
            /\ _uids[i + 1] \in DOMAIN _index_for_uid
            /\ _index_for_uid[_uids[i + 1]] = i

\* C17: whatever the interleaving of the polls of a pass, the first-sighted
\* identities whose polls are running hold pairwise distinct indices and
\* uids, none of them a uid already stored; the stored uids are pairwise
\* distinct; and a newly allocated index and uid are above every index and
\* uid allocated before, the uid counter never going back.
C17_AllocationSerialized ==
    [][/\ \A p, q \in DOMAIN tasks' :
             (p # q /\ tasks'[p].append /\ tasks'[q].append) =>
                 /\ tasks'[p].index # tasks'[q].index
                 /\ tasks'[p].uid # tasks'[q].uid
       /\ \A p \in DOMAIN tasks' :
             tasks'[p].append =>
                 /\ \A t \in 1 .. Len(_uids') : _uids'[t] # tasks'[p].uid
                 /\ tasks'[p].uid < _next_uid'
       /\ \A t, u \in 1 .. Len(_uids') : t # u => _uids'[t] # _uids'[u]
       /\ \A p \in DOMAIN tasks' \ DOMAIN tasks :
             tasks'[p].append =>
                 /\ tasks'[p].uid >= _next_uid
                 /\ \A q \in DOMAIN _index_for_pubkey :
                       tasks'[p].index > _index_for_pubkey[q]
       /\ _next_uid' >= _next_uid]_vars

\* C17's case: the polls of two first-sighted identities are running at the
\* same time.
C17_Witness ==
    /\ pc = "sync"
    /\ \E p, q \in DOMAIN tasks :
          p # q /\ tasks[p].append /\ tasks[q].append

\* C18: every confirmation poll ends with equal() answering, never raising,
\* and it answers True exactly when the key -> value mapping the chain holds
\* for SelfKey is the submitted mapping.
C18_EqualIsTotal ==
    [][nPolls' = nPolls + 1 =>
          /\ lastCall'.status # "raised"
          /\ are_equal' = (/\ Len(chainSelfW.keys) = Len(chainSelfW.vals)
                           /\ DictOf(chainSelfW.keys, chainSelfW.vals)
                                = DictOf(local_keys, local_vals))]_vars

\* C19 as stated: the block a pass stores as last_sync, and as the block of
\* the state it builds, is the block its first step read, the one the
\* staleness filter used.
C19_LastSyncIsObservedBlock ==
    [][(pc = "sync" /\ pc' # "sync") =>
          /\ last_sync' = current_block
          /\ lastCall'.status = "returned" => state'.block = current_block]_vars

\* C19 as amended: the block a pass stores as last_sync, and as the block of
\* the state it builds, is the block the chain reports once the polls of the
\* pass have all completed.
C19_LastSyncIsBlockAtCompletion ==
    [][(pc = "sync" /\ pc' # "sync") =>
          /\ last_sync' = chainBlock
          /\ lastCall'.status = "returned" => state'.block = chainBlock]_vars

\* C19's case: a pass has returned during which the chain advanced: the
\* block it stored is above the block its first step read.
C19_Witness ==
    /\ pc = "idle"
    /\ lastCall.op = "sync"
    /\ lastCall.status = "returned"
    /\ last_sync > current_block
    /\ state.block = last_sync
    /\ state.n > 1

\* pubkey holds an index, and no record of the cache is its own: its first
\* sighting failed.
Orphan(pubkey) ==
    /\ pubkey \in DOMAIN _index_for_pubkey
    /\ \A t \in 1 .. Len(_neurons) : _neurons[t].public_key # pubkey

\* C20: when the poll of an identity whose first sighting failed in an
\* earlier pass completes with every query answered, the peer is in the
\* cache: its descriptor and a uid of its own are stored at its index, and
\* with no other first sighting failed or running the arrays have n entries.
C20_RecoversAfterFailedSighting ==
    [][\A pubkey \in ChainKeys :
          (/\ pc = "sync"
           /\ pubkey \in DOMAIN tasks
           /\ Orphan(pubkey)
           /\ ~tasks[pubkey].append
           /\ _poll_pubkey_update(pubkey, TRUE))
             => LET i == _index_for_pubkey[pubkey]
                IN /\ i < Len(_neurons')
                   /\ _neurons'[i + 1].public_key = pubkey
                   /\ i < Len(_uids')
                   /\ _uids'[i + 1] \in DOMAIN _index_for_uid'
                   /\ _index_for_uid'[_uids'[i + 1]] = i
                   /\ (\A q \in ChainKeys \ {pubkey} :
                          ~Orphan(q) /\ q \notin DOMAIN tasks)
                        => (/\ Len(_neurons') = _n
                            /\ Len(_uids') = _n
                            /\ Len(_stake') = _n)]_vars

====
